---------------------------- MODULE Spec2Model ----------------------------
(***************************************************************************)
(* Model of obspy/kinemetrics/evt.py: the reader of Kinemetrics EVT files. *)
(*                                                                         *)
(* The byte stream is drawn block by block as the reader asks for it: each *)
(* fp.read(n) returns n bytes chosen by the environment, or fewer at the   *)
(* end of the stream.  Every read is appended to `tape`, so that a second  *)
(* readFile call on the same EVT object re-reads the same bytes.  Where    *)
(* two objects decode side by side, each reads a stream given in full.     *)
(*                                                                         *)
(* Tag blocks, frame headers and data blocks are sequences of bytes.  The  *)
(* 2040-byte file header is kept sparse: only the byte ranges whose fields *)
(* drive readFile are represented (duration, nchannels, and whether the    *)
(* first full-scale value is 0.0).                                         *)
(*                                                                         *)
(* The source mixes tabs and spaces (lines 292, 315, 316); the model reads *)
(* those lines at the indentation of their neighbours.  Python 2 semantics *)
(* are assumed (bytes.encode() exists), with true division in force        *)
(* (from __future__ import division).                                      *)
(***************************************************************************)
EXTENDS Integers, Sequences, FiniteSets, TLC

(***************************************************************************)
(* Bounds of the model.                                                    *)
(***************************************************************************)
\* frames the block loop of one stream may decode before the stream ends
MaxFrames == 2
\* largest sampling rate, channel count and extra block length tried on
\* EVT_DATA.read when it is called directly
MaxRate == 21
MaxChan == 2
MaxSlack == 1

(***************************************************************************)
(* Byte helpers: struct.unpack and Python slicing.                         *)
(***************************************************************************)
Min(a, b) == IF a < b THEN a ELSE b

\* buff[a:b] of Python: clipped to the buffer
Slice(buff, a, b) == SubSeq(buff, a + 1, Min(b, Len(buff)))

RECURSIVE BigEndian(_)
BigEndian(s) ==
    IF Len(s) = 0 THEN 0
    ELSE BigEndian(SubSeq(s, 1, Len(s) - 1)) * 256 + s[Len(s)]

RECURSIVE Reverse(_)
Reverse(s) == IF Len(s) = 0 THEN << >> ELSE Append(Reverse(Tail(s)), Head(s))

\* unpack of one unsigned integer field (B, H, L) in byte order endian
unpack(endian, s) == IF endian = ">" THEN BigEndian(s) ELSE BigEndian(Reverse(s))

\* unpack(b">i", s)[0]: one signed 32-bit big-endian integer
unpack_i(s) ==
    IF s[1] >= 128 THEN BigEndian(<<s[1] - 256>> \o Tail(s)) - 0
    ELSE BigEndian(s)

\* x >> n on Python integers: floor division by 2^n
shr(x, n) == x \div (2 ^ n)

(***************************************************************************)
(* EVT_Virtual (evt_base): the HEADER dictionary of a block decoder.       *)
(***************************************************************************)
\* a field whose value was not set yet, or was unset
None == -1

\* setdico: the fields of val replace those of dico, the others are kept
setdico(dico, val) ==
    [k \in DOMAIN dico |-> IF k \in DOMAIN val THEN val[k] ELSE dico[k]]

\* unsetdico: every HEADER field is dropped; attributes set on the
\* instance itself (keep) survive
unsetdico(dico, keep) ==
    [k \in DOMAIN dico |-> IF k \in keep THEN dico[k] ELSE None]


(***************************************************************************)
(* Exceptions.  "" is no exception.                                        *)
(***************************************************************************)
NoExc == ""
EVTEOFError == "EVTEOFError"
EVTBadHeaderError == "EVTBadHeaderError"
EVTBadDataError == "EVTBadDataError"
NotImplementedError == "NotImplementedError"
\* "Bad Header length " + length: a string and an integer do not add
TypeError == "TypeError"
\* struct.error: unpack of a buffer that has not the size of the format
StructError == "struct.error"
\* np.hstack of arrays whose row counts differ
ValueError == "ValueError"
ZeroDivisionError == "ZeroDivisionError"
IndexError == "IndexError"

(***************************************************************************)
(* EVT_TAG                                                                 *)
(***************************************************************************)
\* the object after EVT_TAG.__init__
EVT_TAG_init ==
    [order |-> None, version |-> None, type |-> None, length |-> None,
     datalength |-> None, id |-> None, checksum |-> None, endian |-> "None"]

\* EVT_TAG.verify without the check of a file header's length
EVT_TAG_verify_anylength(self) == self.type \in {1, 2}

EVT_TAG_verify(self) ==
    IF self.type \notin {1, 2} THEN FALSE
    ELSE IF self.type = 1 /\ self.length \notin {2040, 2736} THEN FALSE
    ELSE TRUE

\* the byte order a tag's byteOrder byte selects
TagEndian(byteOrder) == IF byteOrder = 1 THEN ">" ELSE "<"

\* a check for the end of the stream that lets a tag cut short pass
short_read_empty(mystr) == Len(mystr) = 0

\* line 368: the read returned less than the 16 bytes of a tag
short_read(mystr) == Len(mystr) < 16

\* EVT_TAG.read on mystr = fp.read(16): the object afterwards and the
\* exception raised.  Format cBBBLHHHH: sync, order, version, instrument,
\* type (4 bytes), length, datalength, id, checksum (2 bytes each).
EVT_TAG_read(self, mystr) ==
    IF short_read(mystr) THEN [self |-> self, exc |-> EVTEOFError]
    ELSE LET sync == mystr[1]
             byteOrder == mystr[2]
         IN  IF sync = 0 THEN [self |-> self, exc |-> EVTEOFError]
             ELSE IF sync # 75 THEN [self |-> self, exc |-> EVTBadHeaderError]
             ELSE IF byteOrder \notin {0, 1}
                  THEN [self |-> self, exc |-> EVTBadHeaderError]
             ELSE LET endian == TagEndian(byteOrder)
                      val == [order |-> mystr[2],
                              version |-> mystr[3],
                              type |-> unpack(endian, Slice(mystr, 4, 8)),
                              length |-> unpack(endian, Slice(mystr, 8, 10)),
                              datalength |-> unpack(endian, Slice(mystr, 10, 12)),
                              id |-> unpack(endian, Slice(mystr, 12, 14)),
                              checksum |-> unpack(endian, Slice(mystr, 14, 16))]
                      new == [setdico(self, val) EXCEPT !.endian = endian]
                  IN  [self |-> new,
                       exc |-> IF EVT_TAG_verify(new) THEN NoExc
                               ELSE EVTBadHeaderError]

(***************************************************************************)
(* EVT_HEADER.  The file header buffer is sparse: n is the number of bytes *)
(* fp.read returned, duration the bytes at 0x234..0x237, nchannels those   *)
(* at 0x24e..0x24f (HEADER_STRUCT3 from 0x22c, fields 109 and 117), and    *)
(* fullscale the four bytes of the first channel's full scale, a float     *)
(* (HEADER_STRUCT4 from 0x2c8, field 157), kept as its bit pattern.  The   *)
(* other channels' full scales are taken to be non-zero.  The fields that  *)
(* hold an endian are strings throughout ("None": not set, "0": the 0 of   *)
(* __init__).                                                              *)
(***************************************************************************)
EVT_HEADER_init ==
    [duration |-> None, nchannels |-> None, chan_fullscale |-> None,
     endian |-> "None"]

\* analyse_header12: four unpacks, of head_buff[0:0x7c], [0x7c:0x22c],
\* [0x22c:0x2c8] and [0x2c8:0x658]; each raises on a slice cut short by
\* the end of the stream, after the earlier ones have set their fields
analyse_header12(self, head_buff) ==
    LET s3 == setdico(self,
                 [duration |-> unpack(self.endian, head_buff.duration),
                  nchannels |-> unpack(self.endian, head_buff.nchannels)])
        s4 == setdico(s3,
                 [chan_fullscale |-> unpack(self.endian, head_buff.fullscale)])
    IN  IF head_buff.n < 712 THEN [self |-> self, exc |-> StructError]
        ELSE IF head_buff.n < 1624 THEN [self |-> s3, exc |-> StructError]
        ELSE [self |-> s4, exc |-> NoExc]

\* EVT_HEADER.read on buff = fp.read(length)
EVT_HEADER_read(self, buff, length, endian) ==
    LET s == [self EXCEPT !.endian = endian]
    IN  IF length = 2040 THEN analyse_header12(s, buff)
        ELSE IF length = 2736 THEN [self |-> s, exc |-> NotImplementedError]
        ELSE [self |-> s, exc |-> TypeError]

(***************************************************************************)
(* EVT_FRAME_HEADER                                                        *)
(***************************************************************************)
EVT_FRAME_HEADER_init ==
    [frametype |-> None, recorderid |-> None, framesize |-> None,
     blocktime |-> None, channelbitmap |-> None, streampar |-> None,
     framestatus |-> None, framestatus2 |-> None, msec |-> None,
     channelbitmap1 |-> None, numframe |-> 0, endian |-> "0"]

count(self) == self.numframe

\* EVT_FRAME_HEADER.verify that rejects the 16-channel frame type
EVT_FRAME_HEADER_verify_no4(self) == self.frametype \in {3, 5}

EVT_FRAME_HEADER_verify(self) == self.frametype \in {3, 4, 5}

\* the number of bits set among the low 12 bits of the channel bitmap
RECURSIVE popcount(_, _)
popcount(bitmap, numchan) ==
    IF numchan = 0 THEN 0
    ELSE popcount(bitmap, numchan - 1)
         + (IF (bitmap \div (2 ^ (numchan - 1))) % 2 = 1 THEN 1 ELSE 0)

channels(self) ==
    IF self.frametype = 4 THEN [exc |-> NotImplementedError, chan |-> 0]
    ELSE [exc |-> NoExc, chan |-> popcount(self.channelbitmap, 12)]

\* the frame counter after analyse_frame32 was entered
numframe_next(numframe) == numframe + 1

\* analyse_frame32, format BBHHLHHBBHB13s: frametype, instrumentcode,
\* recorderid, framesize, blocktime, channelbitmap, streampar, framestatus,
\* framestatus2, msec, channelbitmap1, timecode
analyse_frame32(self, head_buff) ==
    LET counted == [self EXCEPT !.numframe = numframe_next(self.numframe)]
    IN  IF Len(head_buff) # 32 THEN [self |-> counted, exc |-> StructError]
        ELSE LET e == self.endian
                 val == [frametype |-> head_buff[1],
                         recorderid |-> unpack(e, Slice(head_buff, 2, 4)),
                         framesize |-> unpack(e, Slice(head_buff, 4, 6)),
                         blocktime |-> unpack(e, Slice(head_buff, 6, 10)),
                         channelbitmap |-> unpack(e, Slice(head_buff, 10, 12)),
                         streampar |-> unpack(e, Slice(head_buff, 12, 14)),
                         framestatus |-> head_buff[15],
                         framestatus2 |-> head_buff[16],
                         msec |-> unpack(e, Slice(head_buff, 16, 18)),
                         channelbitmap1 |-> head_buff[19]]
                 new == setdico(counted, val)
             IN  [self |-> new,
                  exc |-> IF EVT_FRAME_HEADER_verify(new) THEN NoExc
                          ELSE EVTBadHeaderError]

\* the sample size the frame status byte selects
samplesize(framestatus) ==
    LET s == shr(framestatus, 6) + 1
    IN  IF s \notin {2, 3, 4} THEN 3 ELSE s

\* EVT_FRAME_HEADER.read on buff = fp.read(length): the object afterwards,
\* the exception raised and, without one, (samplingrate, samplesize,
\* blocktime, channels)
EVT_FRAME_HEADER_read(self, buff, length, endian) ==
    LET s == [self EXCEPT !.endian = endian]
    IN  IF length # 32 THEN [self |-> s, exc |-> TypeError, ret |-> << >>]
        ELSE LET a == analyse_frame32(s, buff)
             IN  IF a.exc # NoExc THEN [self |-> a.self, exc |-> a.exc, ret |-> << >>]
                 ELSE LET c == channels(a.self)
                      IN  IF c.exc # NoExc
                          THEN [self |-> a.self, exc |-> c.exc, ret |-> << >>]
                          ELSE [self |-> a.self, exc |-> NoExc,
                                ret |-> <<a.self.streampar % 4096,
                                          samplesize(a.self.framestatus),
                                          a.self.blocktime, c.chan>>]

(***************************************************************************)
(* EVT_DATA                                                                *)
(***************************************************************************)
\* sample without the shift that undoes the padding of a 3-byte sample
sample_noshift(buff, i, numbyte) ==
    LET s == Slice(buff, i * numbyte, i * numbyte + numbyte)
    IN  IF Len(s) # numbyte THEN [exc |-> StructError, val |-> 0]
        ELSE IF numbyte = 2
             THEN [exc |-> NoExc, val |-> shr(unpack_i(s \o <<0, 0>>), 8)]
        ELSE IF numbyte = 3
             THEN [exc |-> NoExc, val |-> unpack_i(s \o <<0>>)]
        ELSE [exc |-> NoExc, val |-> unpack_i(s)]

\* one sample of numbyte bytes at flat index i of buff; a slice that is
\* too short makes unpack raise
sample(buff, i, numbyte) ==
    LET s == Slice(buff, i * numbyte, i * numbyte + numbyte)
    IN  IF Len(s) # numbyte THEN [exc |-> StructError, val |-> 0]
        ELSE IF numbyte = 2
             THEN [exc |-> NoExc, val |-> shr(unpack_i(s \o <<0, 0>>), 8)]
        ELSE IF numbyte = 3
             THEN [exc |-> NoExc, val |-> shr(unpack_i(s \o <<0>>), 8)]
        ELSE [exc |-> NoExc, val |-> unpack_i(s)]

\* the length check with samplerate / 10 an integer division
bad_length_floor(length, samplerate, numbyte, numchan, inexact) ==
    length # (samplerate \div 10) * numbyte * numchan

\* length != num, where num = (samplerate / 10) * numbyte * numchan is a
\* float.  A float that is a whole number is the exact product, so a
\* length that differs from the exact product always differs from num.
\* samplerate / 10 is exact when 5 divides samplerate; otherwise it is
\* rounded, and the product may miss the whole number the exact product is:
\* inexact says that it does.
bad_length(length, samplerate, numbyte, numchan, inexact) ==
    \/ length * 10 # samplerate * numbyte * numchan
    \/ samplerate % 5 # 0 /\ inexact

\* a flat index that runs through a channel's samples first
flat_index_major(j, k, numchan) == (k * numchan) + j

\* line 165: the flat index of sample j of channel k
flat_index(j, k, numchan) == (j * numchan) + k

\* EVT_DATA.read on buff = fp.read(length)
EVT_DATA_read(buff, length, endian, param, inexact) ==
    LET samplerate == param[1]
        numbyte == param[2]
        numchan == param[4]
        rows == samplerate \div 10
        flat == 0 .. (rows * numchan - 1)
    IN  IF bad_length(length, samplerate, numbyte, numchan, inexact)
        THEN [exc |-> EVTBadDataError, data |-> << >>, unpacked |-> 0]
        ELSE IF \E i \in flat : sample(buff, i, numbyte).exc # NoExc
        THEN [exc |-> StructError, data |-> << >>,
              unpacked |-> Cardinality({i \in flat :
                              \A h \in 0 .. i : sample(buff, h, numbyte).exc = NoExc})]
        ELSE [exc |-> NoExc,
              data |-> [k \in 1 .. numchan |->
                          [j \in 1 .. rows |->
                              sample(buff, flat_index(j - 1, k - 1, numchan),
                                     numbyte).val]],
              unpacked |-> rows * numchan]

(***************************************************************************)
(* EVT: the state of one EVT object and of its readFile call.              *)
(***************************************************************************)
VARIABLES
    pc,            \* where readFile stands: "idle", "tag0", "header", "tag",
                   \* "frame", "data", "check", "done"
    call,          \* readFile calls started on the object
    args,          \* [is_fileobject, Raw] of the call
    file,          \* the file readFile opened itself: "none", "open", "closed"
    fp,            \* the stream: pos, the next read; eof, its end was reached;
                   \* given, the buffers it is known to hold from its start
    tape,          \* the buffers the reads of the first call returned
    ETag, EHeader, EFrame,
    samplingrate,
    data,          \* self.data: one sequence of samples per channel
    endian,        \* readFile's local endian
    retparam,      \* readFile's local retparam
    decoded,       \* the sampling rates of the frames this call appended
    headers,       \* frame headers this call decoded
    exc,           \* the exception that left readFile, or NoExc
    ret,           \* the Stream readFile returned, or NoStream
    first,         \* the first call's outcome, kept when the second starts
    unit,          \* a direct call of one block decoder and its result
    other          \* the state of a second EVT object, whose readFile call
                   \* is suspended while this one's runs

vars == <<pc, call, args, file, fp, tape, ETag, EHeader, EFrame, samplingrate,
          data, endian, retparam, decoded, headers, exc, ret, first, unit,
          other>>

(***************************************************************************)
(* The streams tried.  A block is written with its integer fields in byte  *)
(* order enc, which need not be the order its tag announces.               *)
(***************************************************************************)
Orders == {">", "<"}

RECURSIVE pack(_, _, _)
\* the w bytes of v in byte order enc
pack(enc, v, w) ==
    IF w = 0 THEN << >>
    ELSE IF enc = ">" THEN Append(pack(enc, v \div 256, w - 1), v % 256)
    ELSE <<v % 256>> \o pack(enc, v \div 256, w - 1)

Zeros(n) == [i \in 1 .. n |-> 0]

\* what a read returned: n bytes, of content b
Buf(b) == [n |-> Len(b), b |-> b]

MkTag(sync, order, enc, type, length, datalength) ==
    <<sync, order, 0, 0>> \o pack(enc, type, 4) \o pack(enc, length, 2)
        \o pack(enc, datalength, 2) \o Zeros(4)

MkFrame(enc, frametype, channelbitmap, streampar, framestatus) ==
    <<frametype, 0>> \o Zeros(8) \o pack(enc, channelbitmap, 2)
        \o pack(enc, streampar, 2) \o <<framestatus, 0>> \o Zeros(16)

MkHeader(enc, n, duration, nchannels, fullscale) ==
    [n |-> n,
     b |-> [duration |-> pack(enc, duration, 4),
            nchannels |-> pack(enc, nchannels, 2),
            fullscale |-> pack(enc, fullscale, 4)]]

\* the bit pattern of the float 1.0
FloatOne == 127 * (2 ^ 23)

\* a data block of n bytes: a ramp with the sign bit set in every second
\* byte
Ramp(n) == Buf([i \in 1 .. n |-> IF i % 2 = 1 THEN 128 + i ELSE i])
DataBufs(n) == {Ramp(n)}

\* tags of frames and tags of file headers that EVT_TAG.read accepts, the
\* last of each written and flagged little-endian
FrameTags ==
    {Buf(MkTag(75, 1, ">", 2, 32, dl)) : dl \in {0, 4, 6, 8}}
        \cup {Buf(MkTag(75, 0, "<", 2, 32, 4))}
HeaderTags ==
    {Buf(MkTag(75, 1, ">", 1, 2040, 0)), Buf(MkTag(75, 1, ">", 1, 2736, 0)),
     Buf(MkTag(75, 1, ">", 2, 2040, 0)), Buf(MkTag(75, 0, "<", 1, 2040, 0))}
\* tags that EVT_TAG.read does not accept: an end sentinel, a bad sync, an
\* unknown type, and two tags written in the byte order they do not flag
OddTags ==
    {Buf(MkTag(0, 1, ">", 2, 32, 4)), Buf(MkTag(88, 1, ">", 2, 32, 4)),
     Buf(MkTag(75, 1, ">", 3, 32, 4)), Buf(MkTag(75, 0, ">", 2, 32, 4)),
     Buf(MkTag(75, 1, "<", 1, 2040, 0))}
\* the stream ends before the tag, or in it
ShortTags == {Buf(<< >>), Buf(SubSeq(MkTag(75, 1, ">", 2, 32, 4), 1, 15))}
TagBufs == FrameTags \cup HeaderTags \cup OddTags \cup ShortTags

\* file headers: read(length) returns the length bytes asked for, or the
\* stream ends in them
HeaderBufs(length) ==
    IF length # 2040 THEN {MkHeader(">", length, 0, 0, 0)}
    ELSE {MkHeader(">", 2040, d, c, FloatOne) : d \in {1, 2}, c \in {1, 2}}
         \cup {MkHeader(">", 2040, 1, 1, 0), MkHeader("<", 2040, 1, 1, FloatOne)}
         \cup {MkHeader(">", n, 1, 1, FloatOne) : n \in {0, 712, 1624}}

\* frame headers of 4-byte samples (frame status 192)
FrameBufs(length) ==
    IF length # 32 THEN {[n |-> length, b |-> << >>]}
    ELSE {Buf(MkFrame(">", 3, m, r, 192)) : m \in {1, 3}, r \in {0, 10, 20}}
         \cup {Buf(MkFrame(">", 3, 1, 15, 192)),
               Buf(MkFrame(">", 4, 1, 10, 192)), Buf(MkFrame(">", 6, 1, 10, 192)),
               Buf(MkFrame("<", 3, 1, 10, 192)), Buf(Zeros(31))}

(***************************************************************************)
(* fp.read                                                                 *)
(***************************************************************************)
\* the buffers a read may return: what the stream is known to hold there,
\* what the first call read there when the second call re-reads the
\* stream, nothing past the end of the stream, else any of S
Reads(S, empty) ==
    IF fp.pos <= Len(fp.given) THEN {fp.given[fp.pos]}
    ELSE IF call = 2 /\ fp.pos <= Len(tape) THEN {tape[fp.pos]}
    ELSE IF fp.eof THEN {empty}
    ELSE S

\* the stream after a read of length bytes returned buf
fp_read(buf, length) ==
    /\ fp' = [fp EXCEPT !.pos = @ + 1, !.eof = @ \/ buf.n < length]
    /\ tape' = IF call = 1 THEN Append(tape, buf) ELSE tape

(***************************************************************************)
(* EVT.readFile                                                            *)
(***************************************************************************)
\* no Stream was returned
NoStream ==
    [sampling_rate |-> None, data |-> << >>, calibrated |-> FALSE,
     nchannels |-> None, duration |-> None]

\* an exception leaves readFile: nothing runs after the raise
Raise(e) ==
    /\ pc' = "done"
    /\ exc' = e
    /\ UNCHANGED <<file, ret>>

\* a block loop that is left in silence by whatever is raised in it
loop_exit_any(e) == e # NoExc

\* line 119: the exception that the block loop catches to end
loop_exit(e) == e = EVTEOFError

\* lines 107-120: e is raised in the body of the block loop
Leave(e) ==
    IF loop_exit(e) THEN pc' = "check" /\ UNCHANGED <<exc, file, ret>>
    ELSE Raise(e)

\* file_pointer.close() at the end of readFile
close(f, is_fileobject) == IF is_fileobject = FALSE THEN "closed" ELSE f

\* lines 89-97: the call starts; the second call is given what the first
\* was given
ReadFile(is_fileobject, Raw) ==
    /\ \/ pc = "idle" /\ call = 0
       \/ pc = "done" /\ call = 1 /\ args = [is_fileobject |-> is_fileobject,
                                             Raw |-> Raw]
    /\ call' = call + 1
    /\ args' = [is_fileobject |-> is_fileobject, Raw |-> Raw]
    /\ file' = IF is_fileobject THEN "none" ELSE "open"
    /\ fp' = [fp EXCEPT !.pos = 1, !.eof = FALSE]
    /\ first' = IF call = 1 THEN [exc |-> exc, ret |-> ret] ELSE first
    /\ pc' = "tag0"
    /\ exc' = NoExc
    /\ ret' = NoStream
    /\ decoded' = << >>
    /\ headers' = 0
    /\ UNCHANGED <<tape, ETag, EHeader, EFrame, samplingrate, data, endian,
                   retparam, unit, other>>

\* lines 99-101: the first tag, the byte order, unsetdico
ReadFirstTag ==
    /\ pc = "tag0"
    /\ \E buf \in Reads(TagBufs, Buf(<< >>)) :
         LET r == EVT_TAG_read(ETag, buf.b)
         IN  /\ fp_read(buf, 16)
             /\ ETag' = r.self
             /\ IF r.exc # NoExc
                THEN Raise(r.exc) /\ UNCHANGED <<endian, EHeader>>
                ELSE /\ endian' = r.self.endian
                     /\ EHeader' = unsetdico(EHeader, {"endian"})
                     /\ pc' = "header"
                     /\ UNCHANGED <<exc, file, ret>>
    /\ UNCHANGED <<call, args, EFrame, samplingrate, data, retparam, decoded,
                   headers, first, unit, other>>

\* self.data = np.ndarray([nchannels, 0])
empty_data(nchannels) == [k \in 1 .. nchannels |-> << >>]

\* lines 102-104: the file header
ReadHeader ==
    /\ pc = "header"
    /\ \E buf \in Reads(HeaderBufs(ETag.length), MkHeader(">", 0, 0, 0, 0)) :
         LET r == EVT_HEADER_read(EHeader, [n |-> buf.n] @@ buf.b,
                                  ETag.length, endian)
         IN  /\ fp_read(buf, ETag.length)
             /\ EHeader' = r.self
             /\ IF r.exc # NoExc
                THEN Raise(r.exc) /\ UNCHANGED data
                ELSE /\ data' = empty_data(r.self.nchannels)
                     /\ pc' = "tag"
                     /\ UNCHANGED <<exc, file, ret>>
    /\ UNCHANGED <<call, args, ETag, EFrame, samplingrate, endian, retparam,
                   decoded, headers, first, unit, other>>

\* the tags a stream of at most MaxFrames frames may hold next: past the
\* last frame, those that EVT_TAG.read does not accept
LoopTags == IF headers < MaxFrames THEN TagBufs ELSE OddTags \cup ShortTags

\* line 108, and lines 119-120: the tag of the next frame, or the end
ReadTag ==
    /\ pc = "tag"
    /\ \E buf \in Reads(LoopTags, Buf(<< >>)) :
         LET r == EVT_TAG_read(ETag, buf.b)
         IN  /\ fp_read(buf, 16)
             /\ ETag' = r.self
             /\ IF r.exc # NoExc THEN Leave(r.exc)
                ELSE pc' = "frame" /\ UNCHANGED <<exc, file, ret>>
    /\ UNCHANGED <<call, args, EHeader, EFrame, samplingrate, data, endian,
                   retparam, decoded, headers, first, unit, other>>

\* readFile handing on the byte order of the tag just read
frame_endian_of_tag(local, tag) == tag

\* the byte order readFile hands the frame header and data decoders
frame_endian(local, tag) == local

\* lines 111-114: does the frame's sampling rate pass
rate_differs(rate, new) == rate # 0 /\ rate # new

\* lines 109-114: the frame header and the sampling rate check
ReadFrame ==
    /\ pc = "frame"
    /\ \E buf \in Reads(FrameBufs(ETag.length), Buf(<< >>)) :
         LET r == EVT_FRAME_HEADER_read(EFrame, buf.b, ETag.length,
                                        frame_endian(endian, ETag.endian))
         IN  /\ fp_read(buf, ETag.length)
             /\ EFrame' = r.self
             /\ IF r.exc # NoExc
                THEN Leave(r.exc) /\ UNCHANGED <<retparam, samplingrate, headers>>
                ELSE /\ retparam' = r.ret
                     /\ headers' = headers + 1
                     /\ IF rate_differs(samplingrate, r.ret[1])
                        THEN Leave(EVTBadHeaderError) /\ UNCHANGED samplingrate
                        ELSE /\ samplingrate' = r.ret[1]
                             /\ pc' = "data"
                             /\ UNCHANGED <<exc, file, ret>>
    /\ UNCHANGED <<call, args, ETag, EHeader, data, endian, decoded, first,
                   unit, other>>

\* an hstack that appends to the rows there are, whatever rows it is given
hstack_fit(old, new) ==
    [exc |-> NoExc,
     data |-> [k \in 1 .. Len(old) |->
                  old[k] \o (IF k \in DOMAIN new THEN new[k] ELSE << >>)]]

\* np.hstack((self.data, np.array(datal))): the rows must agree, and a
\* list of no channels is an array of one dimension
hstack(old, new) ==
    IF Len(new) = 0 \/ Len(new) # Len(old) THEN [exc |-> ValueError, data |-> old]
    ELSE [exc |-> NoExc, data |-> [k \in 1 .. Len(old) |-> old[k] \o new[k]]]

\* a data block of length bytes, or the end of the stream in it
DataReads(length) ==
    DataBufs(length) \cup (IF length > 0 THEN {Buf(Zeros(length - 1))} ELSE {})

\* lines 115-118: the data block of the frame
ReadData ==
    /\ pc = "data"
    /\ \E buf \in Reads(DataReads(ETag.datalength), Buf(<< >>)) :
       \E inexact \in (IF retparam[1] % 5 = 0 THEN {FALSE} ELSE BOOLEAN) :
         LET r == EVT_DATA_read(buf.b, ETag.datalength,
                                frame_endian(endian, ETag.endian), retparam,
                                inexact)
             h == hstack(data, r.data)
         IN  /\ fp_read(buf, ETag.datalength)
             /\ IF r.exc # NoExc THEN Leave(r.exc) /\ UNCHANGED <<data, decoded>>
                ELSE IF h.exc # NoExc THEN Leave(h.exc) /\ UNCHANGED <<data, decoded>>
                ELSE /\ data' = h.data
                     /\ decoded' = Append(decoded, retparam[1])
                     /\ pc' = "tag"
                     /\ UNCHANGED <<exc, file, ret>>
    /\ UNCHANGED <<call, args, ETag, EHeader, EFrame, samplingrate, endian,
                   retparam, headers, first, unit, other>>

\* EVT.calibration: the first channel's division by a full scale of 0.0
\* raises, and so does a channel past the twelve the header holds (the
\* full scales tried have the sign bit clear)
calibration(header) ==
    IF header.nchannels >= 1 /\ header.chan_fullscale = 0
    THEN ZeroDivisionError
    ELSE IF header.nchannels > 12 THEN IndexError
    ELSE NoExc

\* lines 121-122: is the number of blocks bad
bad_blocks(frame, header) == count(frame) # header.duration

\* lines 129-139: the Stream, one Trace per channel; makeobspydico raises
\* on a channel past the twelve the header holds
Stream(header, rate, samples, calibrated) ==
    [exc |-> IF header.nchannels > 12 THEN IndexError ELSE NoExc,
     stream |-> [sampling_rate |-> rate, data |-> samples,
                 calibrated |-> calibrated,
                 nchannels |-> header.nchannels,
                 duration |-> header.duration]]

\* lines 121-139: the end of the stream was reached
Finish ==
    /\ pc = "check"
    /\ pc' = "done"
    /\ LET cal == IF args.Raw THEN NoExc ELSE calibration(EHeader)
           st == Stream(EHeader, samplingrate, data, ~args.Raw)
       IN  IF bad_blocks(EFrame, EHeader)
           THEN exc' = EVTBadDataError /\ UNCHANGED <<file, ret>>
           ELSE IF cal # NoExc
           THEN exc' = cal /\ UNCHANGED <<file, ret>>
           ELSE /\ file' = close(file, args.is_fileobject)
                /\ exc' = st.exc
                /\ ret' = IF st.exc = NoExc THEN st.stream ELSE NoStream
    /\ UNCHANGED <<call, args, fp, tape, ETag, EHeader, EFrame, samplingrate,
                   data, endian, retparam, decoded, headers, first, unit, other>>

\* EVT.__init__, before any call
Init ==
    /\ pc = "idle"
    /\ call = 0
    /\ args = [is_fileobject |-> FALSE, Raw |-> FALSE]
    /\ file = "none"
    /\ fp = [pos |-> 1, eof |-> FALSE, given |-> << >>]
    /\ tape = << >>
    /\ ETag = EVT_TAG_init
    /\ EHeader = EVT_HEADER_init
    /\ EFrame = EVT_FRAME_HEADER_init
    /\ samplingrate = 0
    /\ data = << >>
    /\ endian = "None"
    /\ retparam = << >>
    /\ decoded = << >>
    /\ headers = 0
    /\ exc = NoExc
    /\ ret = NoStream
    /\ first = [exc |-> NoExc, ret |-> NoStream]
    /\ unit = [op |-> "none"]
    /\ other = [id |-> "none"]

Next ==
    \/ \E f \in BOOLEAN, r \in BOOLEAN : ReadFile(f, r)
    \/ ReadFirstTag
    \/ ReadHeader
    \/ ReadTag
    \/ ReadFrame
    \/ ReadData
    \/ Finish

Spec == Init /\ [][Next]_vars

\* a step of a readFile call that is under way
Step ==
    \/ ReadFirstTag
    \/ ReadHeader
    \/ ReadTag
    \/ ReadFrame
    \/ ReadData
    \/ Finish

\* one readFile call on a fresh EVT object
LiveNext ==
    \/ \E f \in BOOLEAN, r \in BOOLEAN : call = 0 /\ ReadFile(f, r)
    \/ Step

\* readFile is one synchronous thread over blocking reads of a local file:
\* a call that was started takes its next step
LiveSpec == Init /\ [][LiveNext]_vars /\ WF_vars(Step)

(***************************************************************************)
(* Two EVT objects, each in a readFile call on a stream of its own, the    *)
(* block reads of the two calls interleaved.  The variables hold the state *)
(* of the object whose call runs, `other` that of the object whose call is *)
(* suspended.  The HEADER dictionaries are attributes of the classes       *)
(* EVT_TAG, EVT_HEADER and EVT_FRAME_HEADER (lines 179, 276, 349), and     *)
(* the fields are kept in them (self.HEADER[key][2], line 252): there is   *)
(* one of each for all objects.  What an object holds itself are the       *)
(* attributes set on it: endian (lines 221, 308, 383) and numframe (line   *)
(* 291), besides the attributes of EVT and the locals of readFile.         *)
(***************************************************************************)
\* the state of its own that the running object has
Instance ==
    [id |-> IF other.id = "A" THEN "B" ELSE "A",
     pc |-> pc, call |-> call, args |-> args, file |-> file, fp |-> fp,
     tape |-> tape, samplingrate |-> samplingrate, data |-> data,
     endian |-> endian, retparam |-> retparam, decoded |-> decoded,
     headers |-> headers, exc |-> exc, ret |-> ret, first |-> first,
     tag_endian |-> ETag.endian, header_endian |-> EHeader.endian,
     frame_endian |-> EFrame.endian, numframe |-> EFrame.numframe]

\* the thread of the other object's call is scheduled
Switch ==
    /\ other.id # "none"
    /\ other' = Instance
    /\ pc' = other.pc
    /\ call' = other.call
    /\ args' = other.args
    /\ file' = other.file
    /\ fp' = other.fp
    /\ tape' = other.tape
    /\ samplingrate' = other.samplingrate
    /\ data' = other.data
    /\ endian' = other.endian
    /\ retparam' = other.retparam
    /\ decoded' = other.decoded
    /\ headers' = other.headers
    /\ exc' = other.exc
    /\ ret' = other.ret
    /\ first' = other.first
    /\ ETag' = [ETag EXCEPT !.endian = other.tag_endian]
    /\ EHeader' = [EHeader EXCEPT !.endian = other.header_endian]
    /\ EFrame' = [EFrame EXCEPT !.endian = other.frame_endian,
                                !.numframe = other.numframe]
    /\ UNCHANGED unit

\* a well-formed stream: a file header of duration frames and nchannels
\* channels, then duration frames of sampling rate 10 and 4-byte samples
RECURSIVE Frames(_, _)
Frames(duration, nchannels) ==
    IF duration = 0 THEN << >>
    ELSE Frames(duration - 1, nchannels)
         \o <<Buf(MkTag(75, 1, ">", 2, 32, 4 * nchannels)),
              Buf(MkFrame(">", 3, 2 ^ nchannels - 1, 10, 192)),
              Ramp(4 * nchannels)>>

WellFormed(duration, nchannels) ==
    <<Buf(MkTag(75, 1, ">", 1, 2040, 0)),
      MkHeader(">", 2040, duration, nchannels, FloatOne)>>
        \o Frames(duration, nchannels) \o <<Buf(<< >>)>>

\* the two streams: one frame of one channel, MaxFrames frames of two
StreamA == WellFormed(1, 1)
StreamB == WellFormed(MaxFrames, 2)

\* two fresh EVT objects whose readFile calls were started, each on the
\* file object of its stream, with the default Raw
PairInit ==
    /\ pc = "tag0"
    /\ call = 1
    /\ args = [is_fileobject |-> TRUE, Raw |-> FALSE]
    /\ file = "none"
    /\ fp = [pos |-> 1, eof |-> FALSE, given |-> StreamA]
    /\ tape = << >>
    /\ ETag = EVT_TAG_init
    /\ EHeader = EVT_HEADER_init
    /\ EFrame = EVT_FRAME_HEADER_init
    /\ samplingrate = 0
    /\ data = << >>
    /\ endian = "None"
    /\ retparam = << >>
    /\ decoded = << >>
    /\ headers = 0
    /\ exc = NoExc
    /\ ret = NoStream
    /\ first = [exc |-> NoExc, ret |-> NoStream]
    /\ unit = [op |-> "none"]
    /\ other = [id |-> "B",
                pc |-> "tag0", call |-> 1,
                args |-> [is_fileobject |-> TRUE, Raw |-> FALSE],
                file |-> "none",
                fp |-> [pos |-> 1, eof |-> FALSE, given |-> StreamB],
                tape |-> << >>, samplingrate |-> 0, data |-> << >>,
                endian |-> "None", retparam |-> << >>, decoded |-> << >>,
                headers |-> 0, exc |-> NoExc, ret |-> NoStream,
                first |-> [exc |-> NoExc, ret |-> NoStream],
                tag_endian |-> EVT_TAG_init.endian,
                header_endian |-> EVT_HEADER_init.endian,
                frame_endian |-> EVT_FRAME_HEADER_init.endian,
                numframe |-> EVT_FRAME_HEADER_init.numframe]

PairNext == Switch \/ Step

PairSpec == PairInit /\ [][PairNext]_vars

(***************************************************************************)
(* The block decoders called directly, each on a fresh object.             *)
(***************************************************************************)
UnitTags ==
    {[op |-> "EVT_TAG.read", done |-> FALSE, exc |-> NoExc,
      mystr |-> SubSeq(MkTag(sync, order, enc, type, length, 0), 1, n)] :
        sync \in {0, 75, 88}, order \in {0, 1, 2}, enc \in Orders,
        type \in {0, 1, 2, 3}, length \in {32, 2040, 2736}, n \in {0, 15, 16}}

UnitHeaders ==
    {[op |-> "EVT_HEADER.read", done |-> FALSE, exc |-> NoExc,
      length |-> length, endian |-> e,
      buff |-> [n |-> IF cut THEN 0 ELSE length] @@ MkHeader(enc, 0, d, c, FloatOne).b] :
        length \in {0, 32, 2039, 2040, 2041, 2736, 2737}, e \in Orders,
        enc \in Orders, d \in {0, 2}, c \in {1, 12}, cut \in BOOLEAN}

UnitFrames ==
    {[op |-> "EVT_FRAME_HEADER.read", done |-> FALSE, exc |-> NoExc,
      length |-> length, endian |-> e, ret |-> << >>,
      buff |-> IF length = 32 THEN MkFrame(">", t, m, r, st) ELSE Zeros(length)] :
        length \in {31, 32, 33}, e \in Orders, t \in 0 .. 7,
        m \in {0, 1, 3, 4095, 4097}, r \in {0, 10, 4106},
        st \in {0, 64, 128, 192, 255}}

\* the longest data block tried
MaxLength == ((MaxRate \div 10) + 1) * 4 * MaxChan + MaxSlack

UnitDatas ==
    {[op |-> "EVT_DATA.read", done |-> FALSE, exc |-> NoExc,
      length |-> length, endian |-> e, param |-> <<rate, w, 0, c>>,
      inexact |-> x, data |-> << >>, unpacked |-> 0,
      buff |-> IF ones THEN [i \in 1 .. length |-> 255]
               ELSE [i \in 1 .. length |-> IF i % 2 = 1 THEN 128 + i ELSE i]] :
        length \in 0 .. MaxLength, rate \in 0 .. MaxRate, w \in {2, 3, 4},
        c \in 0 .. MaxChan, x \in BOOLEAN, ones \in BOOLEAN, e \in Orders}

UnitInit ==
    /\ pc = "unit"
    /\ call = 0
    /\ args = [is_fileobject |-> FALSE, Raw |-> FALSE]
    /\ file = "none"
    /\ fp = [pos |-> 1, eof |-> FALSE, given |-> << >>]
    /\ tape = << >>
    /\ ETag = EVT_TAG_init
    /\ EHeader = EVT_HEADER_init
    /\ EFrame = EVT_FRAME_HEADER_init
    /\ samplingrate = 0
    /\ data = << >>
    /\ endian = "None"
    /\ retparam = << >>
    /\ decoded = << >>
    /\ headers = 0
    /\ exc = NoExc
    /\ ret = NoStream
    /\ first = [exc |-> NoExc, ret |-> NoStream]
    /\ other = [id |-> "none"]
    /\ \/ unit \in UnitTags
       \/ unit \in UnitHeaders
       \/ unit \in UnitFrames
       \/ unit \in {u \in UnitDatas : u.param[1] % 5 # 0 \/ ~u.inexact}

UnitTag ==
    /\ pc = "unit" /\ unit.op = "EVT_TAG.read" /\ ~unit.done
    /\ LET r == EVT_TAG_read(ETag, unit.mystr)
       IN  /\ ETag' = r.self
           /\ unit' = [unit EXCEPT !.done = TRUE, !.exc = r.exc]
    /\ UNCHANGED <<pc, call, args, file, fp, tape, EHeader, EFrame,
                   samplingrate, data, endian, retparam, decoded, headers,
                   exc, ret, first, other>>

UnitHeader ==
    /\ pc = "unit" /\ unit.op = "EVT_HEADER.read" /\ ~unit.done
    /\ LET r == EVT_HEADER_read(EHeader, unit.buff, unit.length, unit.endian)
       IN  /\ EHeader' = r.self
           /\ unit' = [unit EXCEPT !.done = TRUE, !.exc = r.exc]
    /\ UNCHANGED <<pc, call, args, file, fp, tape, ETag, EFrame, samplingrate,
                   data, endian, retparam, decoded, headers, exc, ret, first, other>>

UnitFrame ==
    /\ pc = "unit" /\ unit.op = "EVT_FRAME_HEADER.read" /\ ~unit.done
    /\ LET r == EVT_FRAME_HEADER_read(EFrame, unit.buff, unit.length,
                                      unit.endian)
       IN  /\ EFrame' = r.self
           /\ unit' = [unit EXCEPT !.done = TRUE, !.exc = r.exc, !.ret = r.ret]
    /\ UNCHANGED <<pc, call, args, file, fp, tape, ETag, EHeader, samplingrate,
                   data, endian, retparam, decoded, headers, exc, ret, first, other>>

UnitData ==
    /\ pc = "unit" /\ unit.op = "EVT_DATA.read" /\ ~unit.done
    /\ LET r == EVT_DATA_read(unit.buff, unit.length, unit.endian, unit.param,
                              unit.inexact)
       IN  unit' = [unit EXCEPT !.done = TRUE, !.exc = r.exc,
                                !.data = r.data, !.unpacked = r.unpacked]
    /\ UNCHANGED <<pc, call, args, file, fp, tape, ETag, EHeader, EFrame,
                   samplingrate, data, endian, retparam, decoded, headers,
                   exc, ret, first, other>>

UnitNext == UnitTag \/ UnitHeader \/ UnitFrame \/ UnitData

UnitSpec == UnitInit /\ [][UnitNext]_vars

(***************************************************************************)
(* Properties                                                              *)
(***************************************************************************)
\* the buffer the last read returned, and the first tag of the stream
LastRead == tape[fp.pos - 1]
FirstOrder == TagEndian(tape[1].b[2])
\* readFile is past the file header
PastHeader == pc \in {"tag", "frame", "data", "check"}

\* C1: readFile returns only if the frame headers decoded in this call are
\* as many as the header's duration: at the end of the stream any other
\* number makes it fail with EVTBadDataError, in every call on the object.
C1_BlockCountChecked ==
    [][(pc = "check" /\ headers # EHeader.duration)
           => exc' = EVTBadDataError]_vars

\* C2: no frame is appended whose sampling rate differs from the rate of
\* the first frame of the stream, whatever that rate is: the frames of a
\* call all have the rate of its first frame.
C2_ConstantSamplingRate ==
    \A i \in DOMAIN decoded : decoded[i] = decoded[1]

\* the file header fields and the frame header fields are what the byte
\* order of the first tag makes of their bytes
HeaderInFirstOrder ==
    /\ PastHeader
           => /\ EHeader.duration = unpack(FirstOrder, tape[2].b.duration)
              /\ EHeader.nchannels = unpack(FirstOrder, tape[2].b.nchannels)
    /\ pc = "data"
           => /\ EFrame.channelbitmap
                     = unpack(FirstOrder, Slice(LastRead.b, 10, 12))
              /\ EFrame.streampar
                     = unpack(FirstOrder, Slice(LastRead.b, 12, 14))

\* C3 as claimed: the byte order of the first tag decodes every later
\* integer of the stream: file header fields, frame header fields, and the
\* fields of every later tag, whatever byte-order flag that tag carries.
C3_OneByteOrder ==
    /\ HeaderInFirstOrder
    /\ pc = "frame"
           => /\ ETag.type = unpack(FirstOrder, Slice(LastRead.b, 4, 8))
              /\ ETag.length = unpack(FirstOrder, Slice(LastRead.b, 8, 10))
              /\ ETag.datalength = unpack(FirstOrder, Slice(LastRead.b, 10, 12))

\* C3 amended: the byte order of the first tag decodes the file header
\* fields and every frame header's fields; the fields of each tag are
\* decoded in the byte order of that tag's own byte-order flag.
C3_ByteOrderPerTag ==
    /\ HeaderInFirstOrder
    /\ pc = "frame"
           => LET own == TagEndian(LastRead.b[2])
              IN  /\ ETag.type = unpack(own, Slice(LastRead.b, 4, 8))
                  /\ ETag.length = unpack(own, Slice(LastRead.b, 8, 10))
                  /\ ETag.datalength = unpack(own, Slice(LastRead.b, 10, 12))

\* C3 witness: a frame header was decoded, in the first tag's byte order,
\* after a tag whose byte-order flag is not the first's
C3_Witness == pc = "data" /\ ETag.endian # endian /\ EFrame.streampar = 10

\* EVT_DATA.read returned the samples of a block of all-ones bytes
AllOnesDecoded ==
    /\ pc = "unit" /\ unit.op = "EVT_DATA.read" /\ unit.done
    /\ unit.exc = NoExc
    /\ \A i \in DOMAIN unit.buff : unit.buff[i] = 255

\* the samples of the block all have value v
AllSamples(v) ==
    \A k \in DOMAIN unit.data : \A j \in DOMAIN unit.data[k] :
        unit.data[k][j] = v

\* C4 as claimed: a sample whose bytes are all 0xFF decodes to -1, for
\* each of the sample widths 2, 3 and 4.
C4_AllOnesIsMinusOne == AllOnesDecoded => AllSamples(-1)

\* C4 amended: a sample whose bytes are all 0xFF decodes to -1 for the
\* widths 3 and 4, and to -256 for the width 2 (the 16-bit value in the
\* upper bits of a 24-bit one).
C4_AllOnesByWidth ==
    AllOnesDecoded
        => AllSamples(IF unit.param[2] = 2 THEN -256 ELSE -1)

\* C4 witness: two channels of two 3-byte samples, all bytes 0xFF
C4_Witness ==
    /\ AllOnesDecoded /\ unit.unpacked = 4 /\ unit.param[2] = 3
    /\ unit.data = <<<<-1, -1>>, <<-1, -1>>>>

\* C5: EVT_DATA.read fails with EVTBadDataError, before it unpacks any
\* sample, whenever the length is not (samplerate / 10) * numbyte * numchan;
\* it unpacks samples only when the two are equal.
C5_BadDataLength ==
    (pc = "unit" /\ unit.op = "EVT_DATA.read" /\ unit.done)
        => LET equal == unit.length * 10
                            = unit.param[1] * unit.param[2] * unit.param[4]
           IN  /\ ~equal => unit.exc = EVTBadDataError /\ unit.unpacked = 0
               /\ unit.unpacked > 0 => equal /\ unit.exc # EVTBadDataError

\* C5 witness: a sampling rate that 10 does not divide, refused with the
\* length that the whole tenth of the rate would give
C5_Witness ==
    /\ pc = "unit" /\ unit.op = "EVT_DATA.read" /\ unit.done
    /\ unit.param = <<15, 2, 0, 2>> /\ unit.length = 4
    /\ unit.exc = EVTBadDataError

\* C6: a file that readFile opened itself is closed when readFile is
\* left, by a return or by any exception.
C6_FileClosedOnExit ==
    (pc = "done" /\ call >= 1 /\ ~args.is_fileobject) => file = "closed"

\* C7: a second readFile call over the same bytes, on the same EVT object,
\* ends as the first did: the same exception or the same Stream (sampling
\* rate, samples of each channel, header fields).
C7_Idempotent ==
    (pc = "done" /\ call = 2) => exc = first.exc /\ ret = first.ret

\* C8: EVT_HEADER.read fails with EVTBadHeaderError for every length but
\* 2040 and 2736, and with NotImplementedError for the length 2736.
C8_HeaderLengthErrors ==
    (pc = "unit" /\ unit.op = "EVT_HEADER.read" /\ unit.done)
        => /\ unit.length \notin {2040, 2736} => unit.exc = EVTBadHeaderError
           /\ unit.length = 2736 => unit.exc = NotImplementedError

\* C9: EVT_TAG.read ends with EVTEOFError on fewer than 16 bytes or a
\* byte 0 of 0; else with EVTBadHeaderError on a byte 0 that is not 'K';
\* else with EVTBadHeaderError on a byte-order flag that is not 0 or 1;
\* else with EVTBadHeaderError on a block type outside {1, 2} or a block
\* type 1 with a length outside {2040, 2736}; else it accepts the tag.
C9_TagClassified ==
    (pc = "unit" /\ unit.op = "EVT_TAG.read" /\ unit.done)
        => LET b == unit.mystr
               type == unpack(TagEndian(b[2]), SubSeq(b, 5, 8))
               length == unpack(TagEndian(b[2]), SubSeq(b, 9, 10))
           IN  unit.exc =
                   IF Len(b) < 16 \/ b[1] = 0 THEN EVTEOFError
                   ELSE IF b[1] # 75 THEN EVTBadHeaderError
                   ELSE IF b[2] \notin {0, 1} THEN EVTBadHeaderError
                   ELSE IF type \notin {1, 2} THEN EVTBadHeaderError
                   ELSE IF type = 1 /\ length \notin {2040, 2736}
                        THEN EVTBadHeaderError
                   ELSE NoExc

\* C9 witness: a little-endian file header tag whose length is no file
\* header's is refused after its fields were set
C9_Witness ==
    /\ pc = "unit" /\ unit.op = "EVT_TAG.read" /\ unit.done
    /\ unit.mystr = MkTag(75, 0, "<", 1, 32, 0)
    /\ unit.exc = EVTBadHeaderError /\ ETag.type = 1 /\ ETag.length = 32

\* C10: EVT_FRAME_HEADER.read on a frame header of 32 bytes fails with
\* EVTBadHeaderError when the frame type is not 3, 4 or 5, fails with
\* NotImplementedError when it is 4, and returns the frame's geometry
\* only when it is 3 or 5.
C10_FrameTypeChecked ==
    (/\ pc = "unit" /\ unit.op = "EVT_FRAME_HEADER.read" /\ unit.done
     /\ unit.length = 32)
        => LET frametype == unit.buff[1]
           IN  /\ frametype \notin {3, 4, 5} => unit.exc = EVTBadHeaderError
               /\ frametype = 4 => unit.exc = NotImplementedError
               /\ (unit.exc = NoExc /\ Len(unit.ret) = 4)
                      <=> frametype \in {3, 5}

\* C10 witness: a 16-channel frame is refused as not implemented, after
\* it was counted
C10_Witness ==
    /\ pc = "unit" /\ unit.op = "EVT_FRAME_HEADER.read" /\ unit.done
    /\ unit.length = 32 /\ unit.buff[1] = 4
    /\ unit.exc = NotImplementedError /\ EFrame.numframe = 1

RECURSIVE SumSeq(_)
SumSeq(s) == IF Len(s) = 0 THEN 0 ELSE Head(s) + SumSeq(Tail(s))

\* C11: in every recording readFile returns, each frame read contributed a
\* tenth of its sampling rate in samples to each channel, for every rate the
\* data length check accepts: ten times the samples of a channel are the
\* sum of the frames' sampling rates (sampling rate times frames read).
C11_SamplesPerFrame ==
    (pc = "done" /\ call >= 1 /\ exc = NoExc)
        => \A k \in DOMAIN ret.data : Len(ret.data[k]) * 10 = SumSeq(decoded)

\* C13: readFile decodes the first block as a file header only after a
\* tag of block type 1, and a block of the loop as a frame header and data
\* block only after a tag of block type 2.
C13_BlockTypeDispatch ==
    /\ (pc = "tag" /\ fp.pos = 3) => ETag.type = 1
    /\ (pc = "data" \/ (pc = "tag" /\ fp.pos > 3)) => ETag.type = 2

\* C14: count() is the number of frame headers that were decoded with
\* success: of 32 bytes, unpacked, and of a frame type that passes the
\* check.  A frame header that fails to decode leaves it as it was.
C14_CountsDecodedFrames ==
    (pc = "unit" /\ unit.op = "EVT_FRAME_HEADER.read" /\ unit.done)
        => count(EFrame) =
               IF /\ unit.length = 32 /\ Len(unit.buff) = 32
                  /\ unit.buff[1] \in {3, 4, 5}
               THEN 1 ELSE 0

\* the sample accumulator holds nchannels sequences of one length, and a
\* frame just appended had nchannels active channels
AccumulatorInShape ==
    /\ PastHeader
           => /\ Len(data) = EHeader.nchannels
              /\ \A k \in DOMAIN data : Len(data[k]) = Len(data[1])
    /\ (pc = "tag" /\ Len(decoded) > 0) => retparam[4] = EHeader.nchannels

\* the data block of a frame whose active channels are not as many as the
\* header's nchannels ends readFile with an exception and is not appended
MismatchAborts ==
    (pc = "data" /\ retparam[4] # EHeader.nchannels)
        => (pc' = "done" /\ exc' # NoExc /\ data' = data)

\* C15: after every frame appended in readFile the sample accumulator
\* holds exactly EHeader.nchannels channel sequences, all of one length; a
\* frame whose active channel count differs from nchannels is never
\* appended and aborts the decode.
C15_ChannelsAgree == []AccumulatorInShape /\ [][MismatchAborts]_vars

\* C15 witness: after a frame of two channels was appended to the two
\* channels of the header, a frame of one channel aborted the decode
C15_Witness ==
    /\ pc = "done" /\ exc = ValueError /\ Len(decoded) = 1
    /\ EHeader.nchannels = 2 /\ retparam[4] = 1
    /\ Len(data) = 2 /\ Len(data[1]) = 1 /\ Len(data[2]) = 1

\* the errors of the format
Errors == {EVTBadHeaderError, EVTBadDataError, NotImplementedError}

\* what the step of the block loop that reads the next block raises: the
\* tag read, the frame header read and the sampling rate check, or the
\* data block read, on the buffer that the step reads
RaisedInLoop ==
    LET buf == tape'[fp.pos].b
    IN  IF pc = "tag" THEN EVT_TAG_read(ETag, buf).exc
        ELSE IF pc = "frame"
        THEN LET r == EVT_FRAME_HEADER_read(EFrame, buf, ETag.length, endian)
             IN  IF r.exc # NoExc THEN r.exc
                 ELSE IF rate_differs(samplingrate, r.ret[1])
                      THEN EVTBadHeaderError
                 ELSE NoExc
        ELSE EVT_DATA_read(buf, ETag.datalength, endian, retparam, FALSE).exc

\* a step of the block loop: an error it raises leaves readFile at once,
\* with that error and without a Stream, and the loop is left for the
\* final check only by the tag read, on EVTEOFError
LoopStep ==
    pc \in {"tag", "frame", "data"}
        => /\ RaisedInLoop \in Errors
                  => /\ pc' = "done" /\ exc' = RaisedInLoop /\ ret' = NoStream
                     /\ fp'.pos = fp.pos + 1
           /\ pc' = "check" => pc = "tag" /\ RaisedInLoop = EVTEOFError

\* once an exception has left readFile, the call reads no further block
NoReadAfterRaise ==
    (pc = "done" /\ exc # NoExc) => (fp' = fp \/ pc' = "tag0")

\* C17: readFile leaves its block loop without an error only on the
\* EVTEOFError of the tag read; an EVTBadHeaderError, EVTBadDataError or
\* NotImplementedError raised by the tag read, the frame header read, the
\* sampling rate check or the data block read leaves readFile at once: no
\* further block is read and no Stream is returned.
C17_ErrorsPropagate ==
    /\ []((pc = "done" /\ exc \in Errors) => ret = NoStream)
    /\ [][LoopStep /\ NoReadAfterRaise]_vars

\* C17 witness: after one frame was appended, the frame header read of a
\* 16-channel frame left readFile with NotImplementedError and no Stream
C17_Witness ==
    /\ pc = "done" /\ exc = NotImplementedError /\ ret = NoStream
    /\ Len(decoded) = 1 /\ headers = 1 /\ EFrame.frametype = 4

\* the signed big-endian integer that the bytes s hold
SignedBigEndian(s) ==
    BigEndian(<<IF s[1] >= 128 THEN s[1] - 256 ELSE s[1]>> \o Tail(s))

\* the bytes of the sample at flat index i
SampleBytes(i) ==
    SubSeq(unit.buff, i * unit.param[2] + 1, i * unit.param[2] + unit.param[2])

\* EVT_DATA.read accepted the block and returned its samples
BlockDecoded ==
    /\ pc = "unit" /\ unit.op = "EVT_DATA.read" /\ unit.done
    /\ unit.exc = NoExc

\* C16 as claimed: for an accepted block EVT_DATA.read returns
\* activeChannelCount sequences, and element j of channel k is the signed
\* big-endian integer held in the bytes of flat index j * activeChannelCount
\* + k, for every j < samplingRate / 10 and every channel k, in both
\* stream byte orders.
C16_SamplesAsHeld ==
    BlockDecoded
        => /\ Len(unit.data) = unit.param[4]
           /\ \A k \in 0 .. unit.param[4] - 1 :
              \A j \in {h \in 0 .. unit.param[1] : h * 10 < unit.param[1]} :
                  /\ j + 1 \in DOMAIN unit.data[k + 1]
                  /\ unit.data[k + 1][j + 1]
                         = SignedBigEndian(SampleBytes(j * unit.param[4] + k))

\* C16 amended: for an accepted block EVT_DATA.read returns
\* activeChannelCount sequences, and element j of channel k, for every
\* element j that the sequence of channel k holds and every channel k, is
\* the signed big-endian integer held in the bytes of flat index
\* j * activeChannelCount + k for the widths 3 and 4, and 256 times that
\* integer for the width 2, in both stream byte orders; for a sampling
\* rate that is a multiple of 10 every sequence holds samplingRate / 10
\* elements.
C16_SamplesByWidth ==
    BlockDecoded
        => /\ Len(unit.data) = unit.param[4]
           /\ \A k \in 0 .. unit.param[4] - 1 :
                 /\ unit.param[1] % 10 = 0
                        => Len(unit.data[k + 1]) * 10 = unit.param[1]
                 /\ \A j \in 0 .. Len(unit.data[k + 1]) - 1 :
                        unit.data[k + 1][j + 1]
                            = SignedBigEndian(SampleBytes(j * unit.param[4] + k))
                                  * (IF unit.param[2] = 2 THEN 256 ELSE 1)

\* C16 witness: two channels of two 3-byte samples each, read from a
\* little-endian stream, whose first bytes have the sign bit set
C16_Witness ==
    /\ BlockDecoded /\ unit.endian = "<"
    /\ unit.param = <<20, 3, 0, 2>> /\ unit.buff[1] = 129
    /\ Len(unit.data) = 2 /\ Len(unit.data[1]) = 2
    /\ unit.data[1][1] < 0 /\ unit.data[2][2] > 0

\* an iteration of the block loop that does not raise has read the 16
\* bytes of a tag
TagConsumed == (pc = "tag" /\ pc' = "frame") => tape'[fp.pos].n >= 16

\* C18: on a finite stream readFile terminates, with a Stream or an
\* exception: every iteration of its block loop raises or consumes the 16
\* bytes of a tag at least, so that the loop ends after finitely many
\* iterations, with EVTEOFError or with an error.
C18_Terminates ==
    /\ [][TagConsumed]_vars
    /\ (pc = "tag0") ~> (pc = "done")

\* C18 witness: a stream of as many frames as streams hold at most was
\* read to its end and readFile returned
C18_Witness ==
    /\ pc = "done" /\ call = 1 /\ exc = NoExc /\ ret # NoStream
    /\ headers = MaxFrames /\ Len(decoded) = MaxFrames /\ fp.eof

\* the samples of channel k in the data blocks of the first n frames of
\* the well-formed stream s
RECURSIVE ChannelOf(_, _, _)
ChannelOf(s, k, n) ==
    IF n = 0 THEN << >>
    ELSE LET param == EVT_FRAME_HEADER_read(EVT_FRAME_HEADER_init,
                                            s[3 * n + 1].b, 32, ">").ret
         IN  ChannelOf(s, k, n - 1)
                 \o EVT_DATA_read(s[3 * n + 2].b, s[3 * n + 2].n, ">", param,
                                  FALSE).data[k]

\* how the decode of the well-formed stream s ends when it runs alone
Alone(s) ==
    LET header == EVT_HEADER_read(EVT_HEADER_init, [n |-> s[2].n] @@ s[2].b,
                                  2040, ">").self
        samples == [k \in 1 .. header.nchannels |->
                       ChannelOf(s, k, (Len(s) - 3) \div 3)]
    IN  [exc |-> NoExc, ret |-> Stream(header, 10, samples, TRUE).stream]

\* C12: two decodes on two EVT objects and two streams share no state:
\* however their block reads interleave, each ends with the header
\* fields, the metadata and the samples with which it ends alone.
C12_NoSharedState ==
    (other.id # "none" /\ pc = "done" /\ other.pc = "done")
        => /\ [exc |-> exc, ret |-> ret] = Alone(fp.given)
           /\ [exc |-> other.exc, ret |-> other.ret] = Alone(other.fp.given)

\* the decode of A ran to its end before that of B read its first block,
\* and both ended as they end alone
C12_Serial ==
    /\ other.id = "A" /\ pc = "done" /\ other.pc = "done"
    /\ [exc |-> exc, ret |-> ret] = Alone(fp.given)
    /\ [exc |-> other.exc, ret |-> other.ret] = Alone(other.fp.given)

=============================================================================
